---------------------------- MODULE Spec2Model ----------------------------
(***************************************************************************)
(* Model of make.py, the generator of the GSL special-function bindings:   *)
(* the Source Patcher (inject_tests, inject_docs), the Function Database   *)
(* (SpecialFunctionDatabase.update_with_modules), the Signature            *)
(* Decomposer and Filter (decompose_head, function_heads) and the Test     *)
(* Literal Extractor (parse_TEST_SF_line).                                 *)
(*                                                                         *)
(* Text is a sequence of atoms.  In module sources an atom is a line break *)
(* or an indivisible piece of a line; in C identifiers and type tokens an  *)
(* atom is a lexeme ("gsl_sf_", "foo", "_e", "double", "*"); in test       *)
(* expressions an atom is one character.  Python's str operations (split,  *)
(* join, in, startswith, replace, lstrip, +) act on these sequences as they *)
(* act on strings.                                                         *)
(***************************************************************************)
EXTENDS Naturals, Sequences, FiniteSets

VARIABLES
    functions,       \* db.functions: the entries, in dict (insertion) order
    contents,        \* the text of the emitted module file src/special/<module>.rs
    tests_content,   \* the rendered test block handed to inject_tests
    fdocs,           \* the FunctionDoc records handed to inject_docs
    before,          \* the file's text when the last patcher operation started
    ops,             \* the operations run so far, oldest first
    inserted,        \* per operation run: the c_funcs whose prose block it inserted
    modules,         \* the headers (one per module) handed to function_heads
    heads,           \* the heads the last gather_function_heads / function_heads returned
    prev_functions,  \* db.functions when the last update_with_modules started
    calls,           \* number of update_with_modules / function_heads calls made
    line,            \* the test-source line handed to parse_TEST_SF_line
    result,          \* what parse_TEST_SF_line returned for it
    failed           \* "ok", or the exception that ended the last operation

vars == <<functions, contents, tests_content, fdocs, before, ops, inserted,
          modules, heads, prev_functions, calls, line, result, failed>>

patch_vars == <<contents, tests_content, fdocs, before, ops, inserted>>
db_vars == <<modules, heads, prev_functions, calls>>
line_vars == <<line, result>>

-----------------------------------------------------------------------------
(* Bounds of the model. *)

\* chunks of text an emitted module file is built from
MaxChunks == 3
\* patcher operations in one behaviour
MaxOps == 2
\* declarations in all the headers handed to one update_with_modules call
MaxDecls == 2
\* update_with_modules calls in one behaviour
MaxCalls == 2
\* arguments of a declaration handed to function_heads
MaxArgs == 3
\* entries of the argument tuple of a test line, before the result pointer
MaxElts == 2

-----------------------------------------------------------------------------
(* Python str operations on sequences of atoms. *)

NL == "\n"

\* s[i:].startswith(sub), i counted from 1
StartsWithAt(s, sub, i) ==
    /\ i + Len(sub) - 1 <= Len(s)
    /\ SubSeq(s, i, i + Len(sub) - 1) = sub

\* s.startswith(sub)
StartsWith(s, sub) == StartsWithAt(s, sub, 1)

\* s.endswith(sub)
EndsWith(s, sub) ==
    /\ Len(sub) <= Len(s)
    /\ SubSeq(s, Len(s) - Len(sub) + 1, Len(s)) = sub

\* s.find(sub) + 1: the first position where sub occurs, 0 when it does not
Find(s, sub) ==
    IF \E i \in 1..Len(s) : StartsWithAt(s, sub, i)
    THEN CHOOSE i \in 1..Len(s) :
            /\ StartsWithAt(s, sub, i)
            /\ \A j \in 1..(i - 1) : ~StartsWithAt(s, sub, j)
    ELSE 0

\* sub in s  (sub not empty)
Contains(s, sub) == Find(s, sub) # 0

\* s.split(sep): the pieces between the non-overlapping occurrences of sep,
\* found left to right
RECURSIVE Split(_, _)
Split(s, sep) ==
    LET i == Find(s, sep) IN
    IF i = 0 THEN <<s>>
    ELSE <<SubSeq(s, 1, i - 1)>> \o Split(SubSeq(s, i + Len(sep), Len(s)), sep)

\* sep.join(parts)
RECURSIVE Join(_, _)
Join(parts, sep) ==
    IF Len(parts) = 0 THEN <<>>
    ELSE IF Len(parts) = 1 THEN parts[1]
    ELSE parts[1] \o sep \o Join(Tail(parts), sep)

\* s.count(sub)
Count(s, sub) == Len(Split(s, sub)) - 1

\* the concatenation of a sequence of texts
Concat(parts) == Join(parts, <<>>)

\* all sequences of at most n elements of S
SeqsUpTo(S, n) == UNION {[1..k -> S] : k \in 0..n}


-----------------------------------------------------------------------------
(* Names.  A C identifier is a sequence of lexemes; Python's None, where a  *)
(* name is expected, is a one-atom text which no str operation  *)
(* produces.                                                                *)

None == <<"<None>">>

\* "{}".format(v)
Format(v) == IF v = None THEN <<"None">> ELSE v

-----------------------------------------------------------------------------
(* Source Patcher: inject_tests. *)

\* "\n#[cfg(test)]", the separator of contents.split
TestBoundary == <<NL, "#[cfg(test)]">>

\* an unpacking that takes the first two pieces and ignores the rest
unpacks_first_two(parts) == Len(parts) >= 2

\* [a, b] = parts: the unpacking succeeds when parts has exactly two elements,
\* and raises ValueError otherwise
unpacks_to_pair(parts) == Len(parts) = 2

\* "".join([code, tests_content]): the join without its separator
inject_tests_join_no_separator(code, tests) == code \o tests

\* "\n".join([code, tests_content])
inject_tests_join(code, tests) == Join(<<code, tests>>, <<NL>>)

\* inject_tests(path, tests_content).  The unpacking [code, old_tests] = ...
\* raises ValueError, before the file is opened for writing, unless split
\* returned exactly two pieces.
inject_tests ==
    /\ failed = "ok"
    /\ Len(ops) < MaxOps
    /\ LET parts == Split(contents, TestBoundary) IN
        IF unpacks_to_pair(parts)
        THEN /\ contents' = inject_tests_join(parts[1], tests_content)
             /\ failed' = "ok"
        ELSE /\ contents' = contents
             /\ failed' = "ValueError"
    /\ before' = contents
    /\ ops' = Append(ops, "inject_tests")
    /\ inserted' = Append(inserted, {})
    /\ UNCHANGED <<functions, tests_content, fdocs>>
    /\ UNCHANGED db_vars
    /\ UNCHANGED line_vars

-----------------------------------------------------------------------------
(* Source Patcher: inject_docs. *)

\* "\n#[allow(non_snake_case)]\npub fn {}(".format(rust_func)
marker_with_warning_suppression(rust_func) ==
    <<NL, "#[allow(non_snake_case)]", NL, "pub fn ">> \o Format(rust_func) \o <<"(">>

\* "\npub fn {}(".format(rust_func)
plain_marker(rust_func) == <<NL, "pub fn ">> \o Format(rust_func) \o <<"(">>

\* the marker inject_docs settles on for a function, given the file's text
marker_of(text, rust_func) ==
    IF Contains(text, marker_with_warning_suppression(rust_func))
    THEN marker_with_warning_suppression(rust_func)
    ELSE plain_marker(rust_func)

\* the marker itself as the text to look for and split at
split_point_without_blank_line(marker) == marker

\* "\n" + marker: the text inject_docs looks for and splits at
split_point(marker) == <<NL>> \o marker

\* link_to_gsl (the two backquotes around the first name belong to the atoms
\* next to it)
link_to_gsl(gsl_func) ==
    <<NL, "///", NL, "/// Binds the [">> \o gsl_func
        \o <<"](https://www.gnu.org/software/gsl/doc/html/specfunc.html#c.">>
        \o gsl_func \o <<") function.">>

\* "\n".join("/// " + line for line in fdoc.doc.split("\n"))
rust_doc(doc) ==
    LET lines == Split(doc, <<NL>>) IN
    Join([i \in 1..Len(lines) |-> <<"/// ">> \o lines[i]], <<NL>>)

\* docs_map = dict((fdoc.name, fdoc) for fdoc in fdocs): a later record of the
\* same name replaces an earlier one.  docs_map.get(name), None as found=FALSE.
docs_map_get(docs, name) ==
    LET hits == {i \in 1..Len(docs) : docs[i].name = name} IN
    IF hits = {} THEN [found |-> FALSE, doc |-> <<>>]
    ELSE [found |-> TRUE,
          doc |-> docs[CHOOSE i \in hits : \A j \in hits : j <= i].doc]

\* everything inject_docs puts between the text before the marker and the marker
prose_block(doc, gsl_func) ==
    <<NL, NL, "#[cfg_attr(doc, katexit::katexit)]", NL>>
        \o <<"/// <style>p { overflow-y: hidden; }</style>", NL>>
        \o rust_doc(doc)
        \o link_to_gsl(gsl_func)

\* one iteration of the loop over db.functions.items()
inject_docs_step(function, docs, text) ==
    LET marker == marker_of(text, function.rust_func)
        fdoc == docs_map_get(docs, function.c_func_canonical)
        cut == split_point(marker)
    IN
    IF fdoc.found /\ Contains(text, cut)
    THEN LET parts == Split(text, cut) IN
         IF unpacks_to_pair(parts)
         THEN [contents |-> Concat(<<parts[1],
                                     prose_block(fdoc.doc, function.c_func),
                                     marker,
                                     parts[2]>>),
               failed |-> "ok", did |-> TRUE]
         ELSE [contents |-> text, failed |-> "ValueError", did |-> FALSE]
    ELSE [contents |-> text, failed |-> "ok", did |-> FALSE]

\* the loop, from entry i on; an exception leaves it at once
RECURSIVE inject_docs_loop(_, _, _, _, _)
inject_docs_loop(db, docs, i, text, done) ==
    IF i > Len(db) THEN [contents |-> text, failed |-> "ok", inserted |-> done]
    ELSE LET r == inject_docs_step(db[i], docs, text) IN
         IF r.failed # "ok"
         THEN [contents |-> text, failed |-> r.failed, inserted |-> done]
         ELSE inject_docs_loop(db, docs, i + 1, r.contents,
                               IF r.did THEN done \cup {db[i].c_func} ELSE done)

\* inject_docs(path, db, fdocs).  The file is written after the loop, so an
\* exception in the loop leaves the file as it was.
inject_docs ==
    /\ failed = "ok"
    /\ Len(ops) < MaxOps
    /\ LET r == inject_docs_loop(functions, fdocs, 1, contents, {}) IN
        /\ contents' = (IF r.failed = "ok" THEN r.contents ELSE contents)
        /\ failed' = r.failed
        /\ inserted' = Append(inserted, r.inserted)
    /\ before' = contents
    /\ ops' = Append(ops, "inject_docs")
    /\ UNCHANGED <<functions, tests_content, fdocs>>
    /\ UNCHANGED db_vars
    /\ UNCHANGED line_vars

-----------------------------------------------------------------------------
(* The patcher's inputs: emitted module files, test blocks, documentation  *)
(* records and databases.                                                   *)


foo_e == <<"gsl_sf_", "foo", "_e">>
foo_plain == <<"gsl_sf_", "foo">>
bar_e == <<"gsl_sf_", "bar", "_e">>

Entry(c_func, canonical, rust_func, exclude, has_args, args) ==
    [c_func |-> c_func, c_func_canonical |-> canonical, rust_func |-> rust_func,
     exclude |-> exclude, has_args |-> has_args, args |-> args]

\* the pieces an emitted module file is made of
Chunks ==
    { <<"x">>,
      <<NL>>,
      TestBoundary,
      plain_marker(<<"foo">>),
      marker_with_warning_suppression(<<"foo">>),
      <<NL>> \o plain_marker(<<"bar">>) }

ModuleFiles == {Concat(cs) : cs \in SeqsUpTo(Chunks, MaxChunks)}

TestBlocks ==
    { <<"#[cfg(test)]", NL, "mod tests { }">>,
      <<"#[cfg(test)]", NL, "mod a { }", NL, "#[cfg(test)]", NL, "mod b { }">>,
      <<NL, "#[cfg(test)]", NL, "mod tests { }">>,
      <<"mod tests { }">>,
      <<>> }

DocRecords ==
    { <<>>,
      <<[name |-> <<"gsl_sf_", "foo">>, doc |-> <<"Computes foo.">>]>>,
      <<[name |-> <<"gsl_sf_", "foo">>, doc |-> <<"Computes foo.", NL, "See bar.">>],
        [name |-> <<"gsl_sf_", "bar">>, doc |-> <<>>]>> }

PatchDatabases ==
    { <<Entry(foo_e, <<"gsl_sf_", "foo">>, <<"foo">>, FALSE, FALSE, <<>>),
        Entry(bar_e, <<"gsl_sf_", "bar">>, <<"bar">>, FALSE, FALSE, <<>>)>>,
      <<Entry(foo_e, <<"gsl_sf_", "foo">>, <<"foo">>, FALSE, FALSE, <<>>),
        Entry(foo_plain, <<"gsl_sf_", "foo">>, <<"foo">>, TRUE, FALSE, <<>>)>> }

NoLine == [shape |-> "none"]
NoResult == [kind |-> "none"]

InitPatch ==
    /\ functions \in PatchDatabases
    /\ contents \in ModuleFiles
    /\ tests_content \in TestBlocks
    /\ fdocs \in DocRecords
    /\ before = <<>>
    /\ ops = <<>>
    /\ inserted = <<>>
    /\ modules = <<>>
    /\ heads = <<>>
    /\ prev_functions = <<>>
    /\ calls = 0
    /\ line = NoLine
    /\ result = NoResult
    /\ failed = "ok"

NextPatch == inject_docs \/ inject_tests

SpecPatch == InitPatch /\ [][NextPatch]_vars


-----------------------------------------------------------------------------
(* Type Mapper.  A Python value that is a type is either a str or a pair   *)
(* (2-tuple) of str: [py |-> "str", v |-> text, w |-> <<>>] and            *)
(* [py |-> "tuple", v |-> first, w |-> second].                            *)

Str(t) == [py |-> "str", v |-> t, w |-> <<>>]
Tup(a, b) == [py |-> "tuple", v |-> a, w |-> b]

\* the c_type values convert_to_rust_type has a rule for
RuleTable ==
    { Str(<<"double">>), Str(<<"int">>),
      Tup(<<"const">>, <<"int">>), Tup(<<"unsigned">>, <<"int">>),
      Tup(<<"const">>, <<"double">>), Tup(<<"double">>, <<"*">>),
      Tup(<<"int">>, <<"*">>), Tup(<<"const">>, <<"gsl_mode_t">>) }

\* a mapper that has no pass-through: an unknown c_type gives the empty type
convert_to_rust_type_no_pass_through(c_type) ==
    IF c_type = Str(<<"double">>) THEN Str(<<"f64">>)
    ELSE IF c_type = Str(<<"int">>) THEN Str(<<"i32">>)
    ELSE IF c_type = Tup(<<"const">>, <<"int">>) THEN Str(<<"i32">>)
    ELSE IF c_type = Tup(<<"unsigned">>, <<"int">>) THEN Str(<<"u32">>)
    ELSE IF c_type = Tup(<<"const">>, <<"double">>) THEN Str(<<"f64">>)
    ELSE IF c_type = Tup(<<"double">>, <<"*">>) THEN Str(<<"double", "*">>)
    ELSE IF c_type = Tup(<<"int">>, <<"*">>) THEN Str(<<"double", "*">>)
    ELSE IF c_type = Tup(<<"const">>, <<"gsl_mode_t">>) THEN Str(<<"gsl_mode_t">>)
    ELSE Str(<<>>)

\* convert_to_rust_type(c_type).  The branch for c_type None is not modelled:
\* decompose_head never passes None.
convert_to_rust_type(c_type) ==
    IF c_type = Str(<<"double">>) THEN Str(<<"f64">>)
    ELSE IF c_type = Str(<<"int">>) THEN Str(<<"i32">>)
    ELSE IF c_type = Tup(<<"const">>, <<"int">>) THEN Str(<<"i32">>)
    ELSE IF c_type = Tup(<<"unsigned">>, <<"int">>) THEN Str(<<"u32">>)
    ELSE IF c_type = Tup(<<"const">>, <<"double">>) THEN Str(<<"f64">>)
    ELSE IF c_type = Tup(<<"double">>, <<"*">>) THEN Str(<<"double", "*">>)
    ELSE IF c_type = Tup(<<"int">>, <<"*">>) THEN Str(<<"double", "*">>)
    ELSE IF c_type = Tup(<<"const">>, <<"gsl_mode_t">>) THEN Str(<<"gsl_mode_t">>)
    ELSE c_type

\* str.lower() on the atoms of a name
LowerAtom(a) ==
    IF a = "N" THEN "n"
    ELSE IF a = "X" THEN "x"
    ELSE IF a = "Result" THEN "result"
    ELSE a

\* convert_arg_name_to_rust(arg_name)
convert_arg_name_to_rust(arg_name) ==
    [i \in 1..Len(arg_name) |-> LowerAtom(arg_name[i])]

\* convert_sf_name_to_rust_name(c_func)
convert_sf_name_to_rust_name(c_func) ==
    LET a == IF EndsWith(c_func, <<"_e">>)
             THEN SubSeq(c_func, 1, Len(c_func) - 1) ELSE c_func
    IN IF StartsWith(a, <<"gsl_sf_">>) THEN SubSeq(a, 2, Len(a)) ELSE a

\* canonical_c_func_name(name)
canonical_c_func_name(name) ==
    LET a == IF EndsWith(name, <<"_e">>)
             THEN SubSeq(name, 1, Len(name) - 1) ELSE name
    IN IF StartsWith(a, <<"c.">>) THEN SubSeq(a, 2, Len(a)) ELSE a

-----------------------------------------------------------------------------
(* Signature Decomposer.  A declaration matched by the regular expression  *)
(* of function_heads is [func, args]: the identifier, and the argument     *)
(* list already split on "," and on white space, every token a text.       *)

FunctionHeadArg(name, type) == [name |-> name, type |-> type]

\* db.functions.get(name): found, and the entry
functions_get(db, name) ==
    LET hits == {i \in 1..Len(db) : db[i].c_func = name} IN
    IF hits = {} THEN [found |-> FALSE, rust_func |-> None]
    ELSE [found |-> TRUE, rust_func |-> db[CHOOSE i \in hits : TRUE].rust_func]

\* name in db.functions
Keys(db) == {db[i].c_func : i \in 1..Len(db)}

\* the argument decompose_head builds from one split argument of 2, 3 or 4 tokens
decompose_arg(arg) ==
    IF Len(arg) = 2
    THEN FunctionHeadArg(convert_arg_name_to_rust(arg[2]),
                         convert_to_rust_type(Str(arg[1])))
    ELSE IF Len(arg) = 3
    THEN IF arg[2] = <<"*">>
         THEN FunctionHeadArg(convert_arg_name_to_rust(arg[3]),
                              Str(arg[1] \o <<"*">>))
         ELSE FunctionHeadArg(convert_arg_name_to_rust(arg[3]),
                              convert_to_rust_type(Tup(arg[1], arg[2])))
    ELSE FunctionHeadArg(convert_arg_name_to_rust(arg[4]),
                         convert_to_rust_type(Tup(arg[2], arg[3])))

\* no argument makes decompose_head raise "... is an invalid arg!"
args_are_valid(raw_args) ==
    \A i \in 1..Len(raw_args) : Len(raw_args[i]) \in {2, 3, 4}

\* '/*' not in raw_args
no_comment_marker(raw_args) ==
    \A i \in 1..Len(raw_args) : \A j \in 1..Len(raw_args[i]) :
        ~Contains(raw_args[i][j], <<"/*">>)

\* decompose_head(head, db), for a head whose arguments are valid
decompose_head(head, db) ==
    LET final_args == [i \in 1..Len(head.args) |-> decompose_arg(head.args[i])]
        gsl_sf_results ==
            {i \in 1..Len(final_args) :
                final_args[i].type = Str(<<"gsl_sf_result", "*">>)}
    IN [c_func |-> head.func,
        rust_func |-> functions_get(db, head.func).rust_func,
        args |-> final_args,
        has_single_gsl_sf_result |-> Cardinality(gsl_sf_results) = 1,
        takes_arrays |->
            \E i \in 1..Len(final_args) :
                \/ final_args[i].type = Str(<<"double", "*">>)
                \/ final_args[i].type = Str(<<"int", "*">>)
                \/ final_args[i].type = Str(<<"*", "sgn">>),
        no_comments_in_args |-> no_comment_marker(head.args)]

-----------------------------------------------------------------------------
(* Signature Filter. *)

\* 'gsl_mode_t' in arg.type: a substring test on a str, a membership test on
\* a tuple
mode_in_type(type) ==
    IF type.py = "str" THEN Contains(type.v, <<"gsl_mode_t">>)
    ELSE type.v = <<"gsl_mode_t">> \/ type.w = <<"gsl_mode_t">>

\* a filter that forgets to ask for the single gsl_sf_result argument
head_is_kept_without_result_check(head) ==
    /\ ~ \E i \in 1..Len(head.args) :
            mode_in_type(head.args[i].type) \/ Contains(head.args[i].name, <<"*">>)
    /\ ~head.takes_arrays

\* the condition of the list comprehension "Remove heads with problematic types"
head_is_kept(head) ==
    /\ ~ \E i \in 1..Len(head.args) :
            mode_in_type(head.args[i].type) \/ Contains(head.args[i].name, <<"*">>)
    /\ head.has_single_gsl_sf_result
    /\ ~head.takes_arrays
    /\ ~head.takes_arrays

\* the heads the list comprehension keeps, in order
RECURSIVE SelectHeads(_)
SelectHeads(hs) ==
    IF hs = <<>> THEN <<>>
    ELSE (IF head_is_kept(hs[1]) THEN <<hs[1]>> ELSE <<>>) \o SelectHeads(Tail(hs))

\* function_heads raises for this header
header_raises(header) ==
    \E i \in 1..Len(header) : ~args_are_valid(header[i].args)

\* function_heads(path, db), for the declarations the header at path holds
function_heads(header, db) ==
    SelectHeads([i \in 1..Len(header) |-> decompose_head(header[i], db)])

\* gather_function_heads(modules, db)
RECURSIVE gather_function_heads(_, _)
gather_function_heads(mods, db) ==
    IF mods = <<>> THEN <<>>
    ELSE function_heads(mods[1], db) \o gather_function_heads(Tail(mods), db)

-----------------------------------------------------------------------------
(* Function Database. *)

\* the dict new_func built for a head
new_func(head) ==
    Entry(head.c_func, canonical_c_func_name(head.c_func), head.rust_func,
          FALSE, TRUE, head.args)

\* a merge that builds the dict anew from the heads found
RECURSIVE rebuild_functions(_, _)
rebuild_functions(db, hs) ==
    IF hs = <<>> THEN <<>>
    ELSE LET rest == rebuild_functions(db, SubSeq(hs, 1, Len(hs) - 1))
             h == hs[Len(hs)]
         IN IF h.c_func \in Keys(rest) THEN rest ELSE Append(rest, new_func(h))

\* the first loop of update_with_modules: a head whose c_func is no key yet
\* becomes a new entry, at the end of the dict
RECURSIVE merge_new_functions(_, _)
merge_new_functions(db, hs) ==
    IF hs = <<>> THEN db
    ELSE merge_new_functions(
            IF hs[1].c_func \in Keys(db) THEN db ELSE Append(db, new_func(hs[1])),
            Tail(hs))

\* an assignment that replaces the whole entry by a fresh one
entry_rebuilt(entry, head) == new_func(head)

\* self.functions[head.c_func]['args'] = head.args
entry_with_args(entry, head) ==
    [entry EXCEPT !.args = head.args, !.has_args = TRUE]

\* an inner loop that attaches args only to entries that have none yet
RECURSIVE set_missing_args(_, _)
set_missing_args(db, hs) ==
    IF hs = <<>> THEN db
    ELSE set_missing_args(
            [i \in 1..Len(db) |->
                IF db[i].c_func = hs[1].c_func /\ ~db[i].has_args
                THEN entry_with_args(db[i], hs[1]) ELSE db[i]],
            Tail(hs))

\* the inner loop of add_typing_information, over the heads of one module
RECURSIVE set_args(_, _)
set_args(db, hs) ==
    IF hs = <<>> THEN db
    ELSE set_args(
            [i \in 1..Len(db) |->
                IF db[i].c_func = hs[1].c_func
                THEN entry_with_args(db[i], hs[1]) ELSE db[i]],
            Tail(hs))

\* add_typing_information(modules): function_heads is called again, module by
\* module, on the database as it then is
RECURSIVE add_typing_information(_, _)
add_typing_information(db, mods) ==
    IF mods = <<>> THEN db
    ELSE add_typing_information(set_args(db, function_heads(mods[1], db)),
                                Tail(mods))

\* some header makes function_heads raise
modules_raise(mods) == \E m \in 1..Len(mods) : header_raises(mods[m])

\* db.update_with_modules(modules), for given headers.  An invalid argument
\* raises in gather_function_heads, before the database is touched.
update_with_modules(mods) ==
    /\ IF modules_raise(mods)
       THEN /\ functions' = functions
            /\ heads' = <<>>
            /\ failed' = "Exception"
       ELSE LET found == gather_function_heads(mods, functions) IN
            /\ functions' = add_typing_information(
                                merge_new_functions(functions, found), mods)
            /\ heads' = found
            /\ failed' = "ok"
    /\ prev_functions' = functions
    /\ calls' = calls + 1

-----------------------------------------------------------------------------
(* Claims about the Source Patcher, checked under SpecPatch. *)

LastOp == ops[Len(ops)]
LastTwoOpsAre(op) ==
    /\ Len(ops) >= 2
    /\ ops[Len(ops)] = op
    /\ ops[Len(ops) - 1] = op

\* the entry of db.functions with key c_func
EntryOf(db, c_func) == db[CHOOSE i \in 1..Len(db) : db[i].c_func = c_func]

\* the prose block inject_docs inserts for the function with key c_func
BlockOf(c_func) ==
    prose_block(docs_map_get(fdocs, EntryOf(functions, c_func).c_func_canonical).doc,
                c_func)

\* the test block opens the test section itself and holds no second boundary
BlockOpensTestSection ==
    /\ StartsWith(tests_content, <<"#[cfg(test)]">>)
    /\ ~Contains(tests_content, TestBoundary)

\* C1 as stated: whatever the rendered test block is, a second inject_tests run
\* right after a first one succeeds and leaves the file as the first run wrote it.
C1_AnyBlockIdempotent ==
    LastTwoOpsAre("inject_tests") => (failed = "ok" /\ contents = before)

\* C1 amended: when the rendered test block begins with "#[cfg(test)]" and
\* contains no further "\n#[cfg(test)]", a second inject_tests run right after a
\* first one succeeds and leaves the file exactly as the first run wrote it.
C1_TestInjectionIdempotent ==
    (LastTwoOpsAre("inject_tests") /\ BlockOpensTestSection)
        => (failed = "ok" /\ contents = before)

C1_Witness ==
    /\ LastTwoOpsAre("inject_tests")
    /\ BlockOpensTestSection
    /\ failed = "ok"
    /\ contents = before
    /\ Len(Split(contents, TestBoundary)[1]) > 0

\* C2 as stated: a second inject_docs run inserts the prose block of every
\* function the first run documented once more, so the file holds two copies.
C2_SecondRunDuplicates ==
    (LastTwoOpsAre("inject_docs") /\ failed = "ok")
        => \A f \in inserted[Len(ops) - 1] : Count(contents, BlockOf(f)) = 2

\* C2 amended: a second inject_docs run right after a first one inserts nothing:
\* it succeeds, the file is exactly what the first run wrote, and each function
\* the first run documented still has one copy of its prose block.
C2_SecondRunInsertsNothing ==
    LastTwoOpsAre("inject_docs")
        => /\ failed = "ok"
           /\ contents = before
           /\ inserted[Len(ops)] = {}
           /\ \A f \in inserted[Len(ops) - 1] : Count(contents, BlockOf(f)) = 1

C2_Witness ==
    /\ LastTwoOpsAre("inject_docs")
    /\ inserted[Len(ops) - 1] # {}
    /\ contents = before
    /\ \E f \in inserted[Len(ops) - 1] :
          Contains(contents, BlockOf(f) \o marker_of(contents, EntryOf(functions, f).rust_func))

\* entry i of the database has a documentation record
Documented(i) == docs_map_get(fdocs, functions[i].c_func_canonical).found

\* how often the signature marker of entry i, with the line break before it,
\* occurs in the text the last operation started from
SiteCount(i) ==
    Count(before, <<NL>> \o marker_of(before, functions[i].rust_func))

\* C10 as stated: inject_tests fails unless the boundary occurs exactly once, and
\* inject_docs fails whenever the signature marker of a documented function
\* occurs zero times or more than once.
C10_ZeroOrManyIsFatal ==
    ops # <<>> =>
        /\ (LastOp = "inject_tests" /\ Count(before, TestBoundary) # 1)
              => failed # "ok"
        /\ (LastOp = "inject_docs"
              /\ \E i \in 1..Len(functions) :
                    /\ Documented(i)
                    /\ Count(before, marker_of(before, functions[i].rust_func)) # 1)
              => failed # "ok"

\* C10 amended: inject_tests fails (ValueError, file untouched) exactly when the
\* boundary does not occur exactly once.  inject_docs fails (ValueError, file
\* untouched) exactly when, for some documented function, the signature marker
\* preceded by a line break occurs more than once; a documented function whose
\* marker occurs zero times is skipped silently and nothing is inserted for it.
C10_ExactlyOnceRule ==
    ops # <<>> =>
        /\ LastOp = "inject_tests"
              => (failed = "ok" <=> Count(before, TestBoundary) = 1)
        /\ LastOp = "inject_docs"
              => /\ failed # "ok" <=>
                        \E i \in 1..Len(functions) : Documented(i) /\ SiteCount(i) > 1
                 /\ \A i \in 1..Len(functions) :
                        (Documented(i) /\ SiteCount(i) = 0)
                            => functions[i].c_func \notin inserted[Len(ops)]
        /\ failed # "ok" => (failed = "ValueError" /\ contents = before)

C10_Witness ==
    /\ ops # <<>>
    /\ LastOp = "inject_docs"
    /\ failed = "ValueError"
    /\ \E i \in 1..Len(functions) : Documented(i) /\ SiteCount(i) = 0
    /\ \E i \in 1..Len(functions) : Documented(i) /\ SiteCount(i) > 1


-----------------------------------------------------------------------------
(* The database under repeated update_with_modules calls: SpecDb. *)

Decl(func, args) == [func |-> func, args |-> args]

arg_double_x == <<(<<"double">>), (<<"x">>)>>
arg_int_n == <<(<<"int">>), (<<"n">>)>>
arg_result == <<(<<"gsl_sf_result">>), (<<"*">>), (<<"result">>)>>
arg_mode == <<(<<"const">>), (<<"gsl_mode_t">>), (<<"mode">>)>>
arg_size_t_n == <<(<<"size_t">>), (<<"n">>)>>
arg_void == <<(<<"void">>)>>

old_e == <<"gsl_sf_", "old", "_e">>

\* the declarations the headers of SpecDb are made of
DbDecls ==
    { Decl(foo_e, <<arg_double_x, arg_int_n, arg_result>>),
      Decl(foo_e, <<arg_double_x, arg_result>>),
      Decl(bar_e, <<arg_size_t_n, arg_result>>),
      Decl(bar_e, <<arg_double_x, arg_mode, arg_result>>),
      Decl(foo_plain, <<arg_void>>) }

\* the module lists of SpecDb: one header, or two headers that share the
\* declarations between them
ModuleLists ==
    LET seqs == SeqsUpTo(DbDecls, MaxDecls) IN
    {<<ds>> : ds \in seqs}
        \cup UNION {{<<SubSeq(ds, 1, k), SubSeq(ds, k + 1, Len(ds))>> :
                        k \in 0..Len(ds)} : ds \in seqs}

\* the databases loaded from gsl_functions.json
DbDatabases ==
    { <<>>,
      <<Entry(foo_e, <<"gsl_sf_", "foo">>, <<"foo">>, TRUE, FALSE, <<>>),
        Entry(old_e, <<"gsl_sf_", "old">>, <<"old_renamed">>, FALSE, TRUE,
              <<FunctionHeadArg(<<"x">>, Str(<<"f64">>)),
                FunctionHeadArg(<<"result">>, Str(<<"gsl_sf_result", "*">>))>>)>> }

InitDb ==
    /\ functions \in DbDatabases
    /\ contents = <<>>
    /\ tests_content = <<>>
    /\ fdocs = <<>>
    /\ before = <<>>
    /\ ops = <<>>
    /\ inserted = <<>>
    /\ modules = <<>>
    /\ heads = <<>>
    /\ prev_functions = <<>>
    /\ calls = 0
    /\ line = NoLine
    /\ result = NoResult
    /\ failed = "ok"

UpdateWithModules ==
    /\ calls < MaxCalls
    /\ \E mods \in ModuleLists : update_with_modules(mods)
    /\ UNCHANGED <<modules, ops>>
    /\ UNCHANGED <<contents, tests_content, fdocs, before, inserted>>
    /\ UNCHANGED line_vars

NextDb == UpdateWithModules

SpecDb == InitDb /\ [][NextDb]_vars

\* C3: update_with_modules never loses a key: every key of the database before
\* the call is a key after it (and keeps its place in the dict).
C3_KeysNeverLost ==
    calls > 0 =>
        /\ Keys(prev_functions) \subseteq Keys(functions)
        /\ Len(prev_functions) <= Len(functions)
        /\ \A i \in 1..Len(prev_functions) :
              functions[i].c_func = prev_functions[i].c_func

C3_Witness ==
    /\ calls > 0
    /\ failed = "ok"
    /\ Len(functions) > Len(prev_functions)
    /\ \E i \in 1..Len(prev_functions) :
          /\ prev_functions[i].c_func \in Keys(functions)
          /\ \A h \in 1..Len(heads) : heads[h].c_func # prev_functions[i].c_func

\* C4: for an entry that existed before the call, update_with_modules leaves
\* exclude, rust_func and c_func_canonical as they were; only args (and with it
\* the presence of the args key) may change.
C4_CuratedFieldsKept ==
    calls > 0 =>
        \A i \in 1..Len(prev_functions) :
            /\ i <= Len(functions)
            /\ functions[i].c_func = prev_functions[i].c_func
            /\ functions[i].exclude = prev_functions[i].exclude
            /\ functions[i].rust_func = prev_functions[i].rust_func
            /\ functions[i].c_func_canonical = prev_functions[i].c_func_canonical

C4_Witness ==
    /\ calls > 1
    /\ \E i \in 1..Len(prev_functions) :
          /\ prev_functions[i].exclude
          /\ functions[i].exclude
          /\ prev_functions[i].has_args
          /\ functions[i].args # prev_functions[i].args

\* C5 as stated: an entry update_with_modules inserts has the rust name
\* convert_sf_name_to_rust_name gives for its identifier, the canonical name,
\* exclude false and the args of a declaration found for it.
C5_NewEntryHasRustName ==
    (calls > 0 /\ failed = "ok") =>
        \A i \in (Len(prev_functions) + 1)..Len(functions) :
            /\ functions[i].rust_func = convert_sf_name_to_rust_name(functions[i].c_func)
            /\ functions[i].c_func_canonical = canonical_c_func_name(functions[i].c_func)
            /\ ~functions[i].exclude
            /\ \E h \in 1..Len(heads) :
                  /\ heads[h].c_func = functions[i].c_func
                  /\ heads[h].args = functions[i].args


-----------------------------------------------------------------------------
(* One declaration through function_heads and update_with_modules:          *)
(* SpecHeads.  The header is fixed by the initial state.                    *)

\* the arguments a declaration of SpecHeads is made of
ArgCatalogue ==
    { arg_double_x,
      arg_int_n,
      arg_result,
      arg_mode,
      arg_size_t_n,
      arg_void,
      <<(<<"const">>), (<<"double">>), (<<"X">>)>>,
      <<(<<"double">>), (<<"*">>), (<<"v">>)>>,
      <<(<<"double">>), (<<"*", "x">>)>>,
      <<(<<"const">>), (<<"unsigned">>), (<<"int">>), (<<"n">>)>>,
      <<(<<"const">>), (<<"size_t">>), (<<"n">>)>>,
      <<(<<"const">>), (<<"int">>), (<<"*">>), (<<"n">>)>>,
      <<(<<"gsl_sf_result", "*">>), (<<"r">>)>> }

ArgLists == SeqsUpTo(ArgCatalogue, MaxArgs) \ {<<>>}

HeadsDecls == {Decl(f, as) : f \in {foo_e, bar_e}, as \in ArgLists}

HeadsDatabases ==
    { <<>>,
      <<Entry(foo_e, <<"gsl_sf_", "foo">>, <<"foo">>, FALSE, FALSE, <<>>)>> }

InitHeads ==
    /\ functions \in HeadsDatabases
    /\ modules \in {<< <<d>> >> : d \in HeadsDecls}
    /\ contents = <<>>
    /\ tests_content = <<>>
    /\ fdocs = <<>>
    /\ before = <<>>
    /\ ops = <<>>
    /\ inserted = <<>>
    /\ heads = <<>>
    /\ prev_functions = <<>>
    /\ calls = 0
    /\ line = NoLine
    /\ result = NoResult
    /\ failed = "ok"

\* function_heads(path, db) on the header
FunctionHeads ==
    /\ calls = 0
    /\ IF header_raises(modules[1])
       THEN heads' = <<>> /\ failed' = "Exception"
       ELSE heads' = function_heads(modules[1], functions) /\ failed' = "ok"
    /\ prev_functions' = functions
    /\ calls' = calls + 1
    /\ ops' = Append(ops, "function_heads")
    /\ UNCHANGED <<functions, modules>>
    /\ UNCHANGED <<contents, tests_content, fdocs, before, inserted>>
    /\ UNCHANGED line_vars

\* db.update_with_modules(modules) on the header
UpdateWithHeader ==
    /\ calls = 0
    /\ update_with_modules(modules)
    /\ ops' = Append(ops, "update_with_modules")
    /\ UNCHANGED modules
    /\ UNCHANGED <<contents, tests_content, fdocs, before, inserted>>
    /\ UNCHANGED line_vars

NextHeads == FunctionHeads \/ UpdateWithHeader

SpecHeads == InitHeads /\ [][NextHeads]_vars

\* the declaration of the header, and its decomposition
TheDecl == modules[1][1]
TheHead == decompose_head(TheDecl, prev_functions)

\* the c_type decompose_head hands to the Type Mapper for an argument
\* (a pointer argument of three tokens is not handed to it)
MapperApplies(arg) == Len(arg) \in {2, 4} \/ (Len(arg) = 3 /\ arg[2] # <<"*">>)
MapperInput(arg) ==
    IF Len(arg) = 2 THEN Str(arg[1])
    ELSE IF Len(arg) = 3 THEN Tup(arg[1], arg[2])
    ELSE Tup(arg[2], arg[3])
Unmapped(arg) == MapperApplies(arg) /\ MapperInput(arg) \notin RuleTable
HasUnmapped(decl) == \E i \in 1..Len(decl.args) : Unmapped(decl.args[i])

\* the four conditions of the output-struct filter, on a decomposed head
NoModeType(head) ==
    \A i \in 1..Len(head.args) :
        LET t == head.args[i].type IN
        IF t.py = "str" THEN \A k \in 1..Len(t.v) : t.v[k] # "gsl_mode_t"
        ELSE t.v # <<"gsl_mode_t">> /\ t.w # <<"gsl_mode_t">>
NoStarInName(head) ==
    \A i \in 1..Len(head.args) :
        \A k \in 1..Len(head.args[i].name) : head.args[i].name[k] # "*"
FilterConditions(head) ==
    /\ NoModeType(head)
    /\ NoStarInName(head)
    /\ head.has_single_gsl_sf_result
    /\ ~head.takes_arrays

\* on the tokens of the declaration: an output-struct argument is
\* "gsl_sf_result * name" or "gsl_sf_result* name"; a pointer or mode argument
\* has a "*" or the token gsl_mode_t in it
TypeText(arg) == Concat(SubSeq(arg, 1, Len(arg) - 1))
IsOutputStruct(arg) ==
    /\ Len(arg) \in {2, 3}
    /\ TypeText(arg) = <<"gsl_sf_result", "*">>
IsPointerOrMode(arg) ==
    \E j \in 1..Len(arg) : \E k \in 1..Len(arg[j]) : arg[j][k] \in {"*", "gsl_mode_t"}
OutputStructs(decl) == {i \in 1..Len(decl.args) : IsOutputStruct(decl.args[i])}

\* C6: function_heads keeps a declaration iff no argument type contains
\* gsl_mode_t, no argument name contains "*", exactly one argument has the type
\* gsl_sf_result* and takes_arrays is false.  So a declaration with two
\* output-struct arguments is dropped, and one with a single output-struct
\* argument and no other pointer or mode argument is kept.
C6_OutputStructFilter ==
    (ops # <<>> /\ failed = "ok") =>
        /\ heads = <<TheHead>> <=> FilterConditions(TheHead)
        /\ heads = <<>> <=> ~FilterConditions(TheHead)
        /\ Cardinality(OutputStructs(TheDecl)) >= 2 => heads = <<>>
        /\ (/\ Cardinality(OutputStructs(TheDecl)) = 1
            /\ \A i \in 1..Len(TheDecl.args) :
                  i \notin OutputStructs(TheDecl) => ~IsPointerOrMode(TheDecl.args[i]))
              => heads = <<TheHead>>

C6_Witness ==
    /\ ops = <<"function_heads">>
    /\ failed = "ok"
    /\ heads = <<TheHead>>
    /\ Len(TheDecl.args) = MaxArgs
    /\ Cardinality(OutputStructs(TheDecl)) = 1

\* C7 as stated: a declaration with an argument whose type token has no rule in
\* the Type Mapper is never returned by function_heads and never inserted in
\* the database.
C7_UnmappedNeverKept ==
    (/\ ops # <<>>
     /\ failed = "ok"
     /\ \E i \in 1..Len(TheDecl.args) :
            Unmapped(TheDecl.args[i]) /\ ~IsOutputStruct(TheDecl.args[i])) =>
        /\ heads = <<>>
        /\ Keys(functions) = Keys(prev_functions)

\* C7 amended: a declaration with an argument whose type token has no rule in
\* the Type Mapper raises no error; the argument carries the token (or pair of
\* tokens) unchanged as its type.  The filter does not drop it for that: it is
\* returned by function_heads exactly when the four filter conditions hold
\* (size_t n is kept, gsl_mode_t mode is dropped), and a returned declaration is
\* entered in the database by update_with_modules with that type in its args.
C7_UnmappedPassesThrough ==
    (ops # <<>> /\ HasUnmapped(TheDecl) /\ args_are_valid(TheDecl.args)) =>
        /\ failed = "ok"
        /\ \A i \in 1..Len(TheDecl.args) :
              Unmapped(TheDecl.args[i])
                  => TheHead.args[i].type = MapperInput(TheDecl.args[i])
        /\ heads = <<TheHead>> <=> FilterConditions(TheHead)
        /\ heads = <<>> <=> ~FilterConditions(TheHead)
        /\ (LastOp = "update_with_modules" /\ heads = <<TheHead>>)
              => /\ TheDecl.func \in Keys(functions)
                 /\ EntryOf(functions, TheDecl.func).args = TheHead.args
                 /\ EntryOf(functions, TheDecl.func).has_args

C7_Witness ==
    /\ ops = <<"update_with_modules">>
    /\ failed = "ok"
    /\ \E i \in 1..Len(TheDecl.args) :
          /\ Unmapped(TheDecl.args[i])
          /\ ~IsOutputStruct(TheDecl.args[i])
    /\ heads = <<TheHead>>
    /\ TheDecl.func \notin Keys(prev_functions)
    /\ TheDecl.func \in Keys(functions)


-----------------------------------------------------------------------------
(* Test Literal Extractor.  A test expression is text, one atom per        *)
(* character, together with the ast node ast.parse gives for it:            *)
(* cls is the node class; is_int says a Constant holds an int; op,          *)
(* operand_cls and operand_int describe a UnaryOp and its operand; names    *)
(* says that an ast.Name occurs somewhere in the expression.                *)

Expr(src, cls, is_int, op, operand_cls, operand_int, names) ==
    [src |-> src, cls |-> cls, is_int |-> is_int, op |-> op,
     operand_cls |-> operand_cls, operand_int |-> operand_int, names |-> names]

\* is_constant_integer(value)
is_constant_integer(value) ==
    LET is_positive_integer == value.cls = "Constant" /\ value.is_int
        is_negative_integer ==
            /\ value.cls = "UnaryOp"
            /\ value.op = "USub"
            /\ value.operand_cls = "Constant"
            /\ value.operand_int
    IN is_positive_integer \/ is_negative_integer

Digits == {"0", "1", "2", "3", "4", "5", "6", "7", "8", "9"}

\* float(serialized) raises ValueError unless the text of the integer literal
\* is decimal (a literal such as 0x10 is an int Constant that float() rejects)
float_accepts(serialized) ==
    LET body == IF StartsWith(serialized, <<"-">>) THEN Tail(serialized)
                ELSE serialized
    IN body # <<>> /\ \A i \in 1..Len(body) : body[i] \in Digits

\* the integer literal left as it is written
float_literal_unconverted(serialized) == serialized

\* str(float(serialized)) for a decimal integer literal, with or without "-",
\* of fewer than 17 digits: the same digits followed by ".0"
float_literal(serialized) == serialized \o <<".", "0">>

\* s.lstrip('+')
RECURSIVE lstrip_plus(_)
lstrip_plus(s) ==
    IF s # <<>> /\ s[1] = "+" THEN lstrip_plus(Tail(s)) ELSE s

\* s.strip()
RECURSIVE strip(_)
strip(s) ==
    IF s # <<>> /\ s[1] = " " THEN strip(Tail(s))
    ELSE IF s # <<>> /\ s[Len(s)] = " " THEN strip(SubSeq(s, 1, Len(s) - 1))
    ELSE s

\* s.replace(old, new)
Replace(s, old, new) == Join(Split(s, old), new)

\* the characters of the class [abcdf-zABCD-Z]
VariableChars ==
    { "a", "b", "c", "d", "f", "g", "h", "i", "j", "k", "l", "m", "n", "o", "p",
      "q", "r", "s", "t", "u", "v", "w", "x", "y", "z",
      "A", "B", "C", "D", "E", "F", "G", "H", "I", "J", "K", "L", "M", "N", "O",
      "P", "Q", "R", "S", "T", "U", "V", "W", "X", "Y", "Z" }

\* re.match(r'[abcdf-zABCD-Z]', s): the pattern is tried at the start of s only
re_match_variable(s) == s # <<>> /\ s[1] \in VariableChars

\* the text of the one expression the "hack" rewrites, and what it becomes
HackOld == <<"-", "1", "0", "0", "-", "1", ".", "0", "/", "6", "5", "5", "3", "6", ".", "0">>
HackNew == <<"-", "1", "0", "0", ".", "0", "-", "1", ".", "0", "/", "6", "5", "5", "3", "6", ".", "0">>

\* floating_point_value_to_rust(stringified_float)
floating_point_value_to_rust(stringified_float) ==
    LET s0 == strip(stringified_float)
        s1 == IF StartsWith(s0, <<".">>) THEN <<"0">> \o s0 ELSE s0
        s2 == IF StartsWith(s1, <<"-", ".">>)
              THEN <<"-", "0", ".">> \o SubSeq(s1, 3, Len(s1)) ELSE s1
        s3 == IF StartsWith(s2, <<"+", ".">>)
              THEN <<"+", "0", ".">> \o SubSeq(s2, 3, Len(s2)) ELSE s2
    IN IF StartsWith(s3, <<"+">>) THEN Tail(s3) ELSE s3

\* the body of the loop over zip(function['args'], call.args[2].elts[:-1]) for
\* one pair: what becomes of the pair, and the arg_code appended
arg_code_of(typed_arg, arg_value) ==
    LET serialized == arg_value.src IN
    IF is_constant_integer(arg_value) /\ typed_arg.type = Str(<<"f64">>)
    THEN IF float_accepts(serialized)
         THEN [status |-> "ok", code |-> lstrip_plus(float_literal(serialized))]
         ELSE [status |-> "ValueError", code |-> <<>>]
    ELSE [status |-> "ok", code |-> lstrip_plus(serialized)]

\* the loop from pair i on; acc is args so far.  The assert that fails makes
\* parse_TEST_SF_line return None; a ValueError leaves it.
RECURSIVE args_loop(_, _, _, _)
args_loop(typed_args, elts, i, acc) ==
    IF i > Len(typed_args) \/ i > Len(elts) THEN [status |-> "ok", args |-> acc]
    ELSE LET r == arg_code_of(typed_args[i], elts[i]) IN
         IF r.status # "ok" THEN [status |-> r.status, args |-> acc]
         ELSE IF re_match_variable(r.code) THEN [status |-> "None", args |-> acc]
         ELSE args_loop(typed_args, elts, i + 1,
                        Append(acc, Replace(r.code, HackOld, HackNew)))

\* expected, before the assert on it
expected_of(value) ==
    IF is_constant_integer(value)
    THEN IF float_accepts(value.src)
         THEN [status |-> "ok", code |-> float_literal(value.src)]
         ELSE [status |-> "ValueError", code |-> <<>>]
    ELSE [status |-> "ok", code |-> floating_point_value_to_rust(value.src)]

ReturnsNone == [kind |-> "None"]
Raises(e) == [kind |-> e]

\* the database entry parse_TEST_SF_line reads: db.functions.get(c_func, None)
test_function(db, c_func) ==
    LET hits == {i \in 1..Len(db) : db[i].c_func = c_func} IN
    IF hits = {} THEN [found |-> FALSE, has_args |-> FALSE, args |-> <<>>,
                       rust_func |-> None]
    ELSE LET e == db[CHOOSE i \in hits : TRUE] IN
         [found |-> TRUE, has_args |-> e.has_args, args |-> e.args,
          rust_func |-> e.rust_func]

\* parse_TEST_SF_line(line, db).  A line that does not parse to a call
\* TEST_SF(_, name, (tuple), _, _) raises one of the exceptions the function
\* turns into None.
parse_TEST_SF_line(l, db) ==
    IF l.shape # "TEST_SF" THEN ReturnsNone
    ELSE LET function == test_function(db, l.c_func) IN
         IF ~(function.found /\ function.has_args) THEN ReturnsNone
         \* "(&r)" is a parenthesised name, not a tuple: no elts, AttributeError
         ELSE IF Len(l.elts) < 2 THEN ReturnsNone
         ELSE LET a == args_loop(function.args,
                                 SubSeq(l.elts, 1, Len(l.elts) - 1), 1, <<>>)
              IN
              IF a.status = "None" THEN ReturnsNone
              ELSE IF a.status # "ok" THEN Raises(a.status)
              ELSE LET e == expected_of(l.expected) IN
                   IF e.status # "ok" THEN Raises(e.status)
                   ELSE IF re_match_variable(e.code) THEN ReturnsNone
                   ELSE [kind |-> "record",
                         func_c |-> l.c_func,
                         func_rust |-> function.rust_func,
                         args |-> a.args,
                         expected |-> e.code,
                         tolerance |-> l.tolerance.src]

-----------------------------------------------------------------------------
(* One test line through parse_TEST_SF_line: SpecLine. *)

e_5 ==
    Expr(<<"5">>, "Constant", TRUE, "", "", FALSE, FALSE)
e_neg5 ==
    Expr(<<"-", "5">>, "UnaryOp", FALSE, "USub", "Constant", TRUE, FALSE)
e_pos5 ==
    Expr(<<"+", "5">>, "UnaryOp", FALSE, "UAdd", "Constant", TRUE, FALSE)
e_2p0 ==
    Expr(<<"2", ".", "0">>, "Constant", FALSE, "", "", FALSE, FALSE)
e_p5 ==
    Expr(<<".", "5">>, "Constant", FALSE, "", "", FALSE, FALSE)
e_negp5 ==
    Expr(<<"-", ".", "5">>, "UnaryOp", FALSE, "USub", "Constant", FALSE, FALSE)
e_posp5 ==
    Expr(<<"+", ".", "5">>, "UnaryOp", FALSE, "UAdd", "Constant", FALSE, FALSE)
e_hex ==
    Expr(<<"0", "x", "1", "0">>, "Constant", TRUE, "", "", FALSE, FALSE)
e_n ==
    Expr(<<"n">>, "Name", FALSE, "", "", FALSE, TRUE)
e_eps ==
    Expr(<<"e", "p", "s">>, "Name", FALSE, "", "", FALSE, TRUE)
e_negx ==
    Expr(<<"-", "x">>, "UnaryOp", FALSE, "USub", "Name", FALSE, TRUE)
e_2n ==
    Expr(<<"2", "*", "n">>, "BinOp", FALSE, "", "", FALSE, TRUE)
e_hack ==
    Expr(<<"-", "1", "0", "0", "-", "1", ".", "0", "/", "6", "5", "5", "3", "6", ".", "0">>, "BinOp", FALSE, "", "", FALSE, FALSE)
e_pospos5 ==
    Expr(<<"+", "+", "5">>, "UnaryOp", FALSE, "UAdd", "UnaryOp", FALSE, FALSE)
e_ref ==
    Expr(<<"_", "_", "P", "O", "I", "N", "T", "E", "R", "_", "R", "E", "F", "_", "_", "r">>,
         "Name", FALSE, "", "", FALSE, TRUE)
e_tol ==
    Expr(<<"1", "e", "-", "1", "0">>, "Constant", FALSE, "", "", FALSE, FALSE)

ArgExprs ==
    { e_5, e_neg5, e_pos5, e_pospos5, e_2p0, e_p5, e_hex, e_n, e_eps, e_negx, e_2n, e_hack }

ExpectedExprs ==
    { e_5, e_neg5, e_2p0, e_p5, e_negp5, e_posp5, e_n, e_negx }

baz_e == <<"gsl_sf_", "baz", "_e">>

\* the database the lines are parsed against: foo(x: f64, n: i32), bar(x: f64),
\* an entry without args, and no entry for gsl_sf_baz_e
LineDatabase ==
    << Entry(foo_e, <<"gsl_sf_", "foo">>, <<"foo">>, FALSE, TRUE,
             <<FunctionHeadArg(<<"x">>, Str(<<"f64">>)),
               FunctionHeadArg(<<"n">>, Str(<<"i32">>)),
               FunctionHeadArg(<<"result">>, Str(<<"gsl_sf_result", "*">>))>>),
       Entry(bar_e, <<"gsl_sf_", "bar">>, <<"bar">>, FALSE, TRUE,
             <<FunctionHeadArg(<<"x">>, Str(<<"f64">>)),
               FunctionHeadArg(<<"result">>, Str(<<"gsl_sf_result", "*">>))>>),
       Entry(old_e, <<"gsl_sf_", "old">>, <<"old">>, FALSE, FALSE, <<>>) >>

TestLines ==
    {[shape |-> "TEST_SF", c_func |-> f, elts |-> Append(es, e_ref),
      expected |-> x, tolerance |-> e_tol] :
        f \in {foo_e, bar_e, old_e, baz_e},
        es \in SeqsUpTo(ArgExprs, MaxElts),
        x \in ExpectedExprs}
    \cup {[shape |-> "other", c_func |-> foo_e, elts |-> <<e_ref>>,
           expected |-> e_5, tolerance |-> e_tol]}

InitLine ==
    /\ functions = LineDatabase
    /\ line \in TestLines
    /\ result = NoResult
    /\ contents = <<>>
    /\ tests_content = <<>>
    /\ fdocs = <<>>
    /\ before = <<>>
    /\ ops = <<>>
    /\ inserted = <<>>
    /\ modules = <<>>
    /\ heads = <<>>
    /\ prev_functions = <<>>
    /\ calls = 0
    /\ failed = "ok"

ParseLine ==
    /\ result = NoResult
    /\ result' = parse_TEST_SF_line(line, functions)
    /\ failed' = (IF result'.kind \in {"record", "None"} THEN "ok" ELSE result'.kind)
    /\ UNCHANGED <<functions, line>>
    /\ UNCHANGED patch_vars
    /\ UNCHANGED db_vars

NextLine == ParseLine

SpecLine == InitLine /\ [][NextLine]_vars

\* the declared arguments of the function the line names
DeclaredArgs == test_function(functions, line.c_func).args

\* C8: no record is produced for a line in which an argument paired with a
\* declared argument, or the expected value, mentions a variable or symbolic
\* name.
C8_VariablesRejected ==
    result.kind = "record" =>
        /\ \A i \in 1..(Len(line.elts) - 1) :
              i <= Len(DeclaredArgs) => ~line.elts[i].names
        /\ ~line.expected.names

\* the text is an integer literal, possibly negated: digits after an optional "-"
IsIntegerLiteralText(src) ==
    \E k \in 0..1 :
        /\ Len(src) > k
        /\ k = 1 => src[1] = "-"
        /\ \A i \in (k + 1)..Len(src) : src[i] \in Digits

\* the text with its leading "+" signs removed
WithoutLeadingPlus(src) ==
    LET signs == {k \in 0..Len(src) : \A i \in 1..k : src[i] = "+"}
        n == CHOOSE k \in signs : \A j \in signs : j <= k
    IN SubSeq(src, n + 1, Len(src))

\* C9 as stated: in a record, an argument that is an integer literal (possibly
\* negated) for an f64 parameter is its text followed by ".0"; every other
\* argument is its source text with a leading "+" removed.
C9_VerbatimOtherwise ==
    result.kind = "record" =>
        \A i \in 1..Len(result.args) :
            IF IsIntegerLiteralText(line.elts[i].src)
                /\ DeclaredArgs[i].type = Str(<<"f64">>)
            THEN result.args[i] = line.elts[i].src \o <<".", "0">>
            ELSE result.args[i] = WithoutLeadingPlus(line.elts[i].src)

\* C9 amended: in a record, an argument that is an integer literal (possibly
\* negated) for an f64 parameter is its text followed by ".0" (5 gives 5.0,
\* -5 gives -5.0); every other argument is its source text with a leading "+"
\* removed, except that the text -100-1.0/65536.0 inside it is rewritten to
\* -100.0-1.0/65536.0.
C9_LiteralCoercion ==
    result.kind = "record" =>
        \A i \in 1..Len(result.args) :
            IF IsIntegerLiteralText(line.elts[i].src)
                /\ DeclaredArgs[i].type = Str(<<"f64">>)
            THEN result.args[i] = line.elts[i].src \o <<".", "0">>
            ELSE IF Contains(line.elts[i].src, HackOld)
            THEN result.args[i] =
                    Replace(WithoutLeadingPlus(line.elts[i].src), HackOld, HackNew)
            ELSE result.args[i] = WithoutLeadingPlus(line.elts[i].src)

C9_Witness ==
    /\ result.kind = "record"
    /\ Len(result.args) = 2
    /\ line.elts[1] = e_neg5
    /\ result.args[1] = <<"-", "5", ".", "0">>
    /\ line.elts[2] = e_5
    /\ result.args[2] = <<"5">>


-----------------------------------------------------------------------------
(* update_with_modules called again and again on the same modules, from a  *)
(* database that holds args snapshots of an earlier run: SpecRefresh.      *)

stale_args ==
    <<FunctionHeadArg(<<"y">>, Str(<<"f64">>)),
      FunctionHeadArg(<<"result">>, Str(<<"gsl_sf_result", "*">>))>>

\* the databases loaded from gsl_functions.json: those of SpecDb, and one whose
\* entries all carry an args snapshot
RefreshDatabases ==
    DbDatabases \cup
    { <<Entry(foo_e, <<"gsl_sf_", "foo">>, <<"foo">>, FALSE, TRUE, stale_args),
        Entry(bar_e, <<"gsl_sf_", "bar">>, <<"bar">>, FALSE, TRUE, stale_args)>> }

InitRefresh ==
    /\ functions \in RefreshDatabases
    /\ modules \in ModuleLists
    /\ contents = <<>>
    /\ tests_content = <<>>
    /\ fdocs = <<>>
    /\ before = <<>>
    /\ ops = <<>>
    /\ inserted = <<>>
    /\ heads = <<>>
    /\ prev_functions = <<>>
    /\ calls = 0
    /\ line = NoLine
    /\ result = NoResult
    /\ failed = "ok"

RefreshModules ==
    /\ calls < MaxCalls
    /\ update_with_modules(modules)
    /\ UNCHANGED <<modules, ops>>
    /\ UNCHANGED <<contents, tests_content, fdocs, before, inserted>>
    /\ UNCHANGED line_vars

NextRefresh == RefreshModules

SpecRefresh == InitRefresh /\ [][NextRefresh]_vars

\* the declarations of the given modules, in the order they are read
Declared == Concat(modules)

\* the places in Declared that declare c_func
DeclarationsOf(c_func) == {k \in 1..Len(Declared) : Declared[k].func = c_func}

\* the argument list decomposed from the declaration at place k
DecomposedArgs(k) == decompose_head(Declared[k], functions).args

\* the declaration at place k passes the filter of function_heads
PassesFilter(k) == head_is_kept(decompose_head(Declared[k], functions))

\* C11 as stated: after update_with_modules returns, every entry whose
\* identifier is declared in a header of the given modules has the args
\* decomposed from a declaration of it in those headers.
C11_EveryDeclaredEntryRefreshed ==
    (calls > 0 /\ failed = "ok") =>
        \A i \in 1..Len(functions) :
            DeclarationsOf(functions[i].c_func) # {} =>
                /\ functions[i].has_args
                /\ \E k \in DeclarationsOf(functions[i].c_func) :
                      functions[i].args = DecomposedArgs(k)

\* C11 amended: after update_with_modules returns, every entry whose
\* identifier is declared in the given modules by a declaration that passes
\* the filter of function_heads has the args decomposed from the last such
\* declaration, whether the entry existed before or was inserted by the call;
\* an entry with no such declaration existed before and keeps the args (or the
\* absence of args) it had.
C11_FilteredDeclarationsRefresh ==
    (calls > 0 /\ failed = "ok") =>
        \A i \in 1..Len(functions) :
            LET kept == {k \in DeclarationsOf(functions[i].c_func) : PassesFilter(k)}
            IN IF kept # {}
               THEN /\ functions[i].has_args
                    /\ functions[i].args =
                          DecomposedArgs(CHOOSE k \in kept : \A j \in kept : j <= k)
               ELSE /\ i <= Len(prev_functions)
                    /\ functions[i].has_args = prev_functions[i].has_args
                    /\ functions[i].args = prev_functions[i].args

C11_Witness ==
    /\ calls = 1
    /\ failed = "ok"
    /\ \E i \in 1..Len(prev_functions) :
          /\ prev_functions[i].has_args
          /\ prev_functions[i].args = stale_args
          /\ functions[i].args # stale_args
          /\ \E k \in DeclarationsOf(functions[i].c_func) :
                PassesFilter(k) /\ functions[i].args = DecomposedArgs(k)
    /\ \E i \in 1..Len(functions) :
          /\ i <= Len(prev_functions)
          /\ DeclarationsOf(functions[i].c_func) # {}
          /\ \A k \in DeclarationsOf(functions[i].c_func) : ~PassesFilter(k)
          /\ functions[i].args = stale_args

=============================================================================
